---- MODULE Spec2Model ----
(***************************************************************************)
(* EReceipt front end: the API client (token refresh and retry), the       *)
(* receipt form (line items and totals) and the Dashboard send flow        *)
(* (config check, create, notification with e-mail fallback).              *)
(*                                                                         *)
(* One action is one browser task: a user event handler, a timer callback  *)
(* or the arrival of a network response together with the whole            *)
(* continuation of the async functions awaiting it, up to their next       *)
(* network await.  JavaScript runs such a task (and the microtasks it      *)
(* queues) to completion, so nothing interleaves inside an action.         *)
(***************************************************************************)
EXTENDS Integers, Sequences, FiniteSets, TLC

\* ------------------------------------------------------------------ bounds
MaxItems == 2      \* most line items the form is driven to
MaxNextId == 3     \* largest nextId the form is driven to
MaxSubmits == 1    \* accepted form submits explored
MaxSends == 2
MaxAuthCalls == 2      \* handleSendReceipt runs explored

\* --------------------------------------------------------- program constants
DefaultTaxRate == 10
InitialNextId == 2
MinPasswordLength == 6

\* `undefined` / null / a missing localStorage key
NoneV == "none"

VARIABLES
  \* ReceiptForm state (useState, ReceiptForm.jsx 7-12)
  customerName, customerEmail, transactionDate, items, taxRate, nextId,
  \* Dashboard state (useState, App 36-40)
  receipts, formData, showPreview, toastMessage, isSending,
  \* browser: localStorage keys, window.location
  localStorage, location,
  \* AuthProvider state (useState, AuthContext.jsx 9-10), the element the
  \* router shows
  user, loading, screen,
  \* the Login or Signup page on screen: its error and loading states, the
  \* passwords typed into Signup, the authAPI call it awaits
  error, submitting, signupData, authCall,
  \* in-flight apiRequest invocation of each async flow, and the record of
  \* the invocation each flow completed last
  api, last,
  \* the running handleSendReceipt: its position, its closure and locals
  sendPc, run,
  \* history: Date.now() ticks, the receipts handleCreateReceipt was given,
  \* the bodies of the POST /receipts requests issued, the runs started,
  \* where each finished run ended
  clock, submitted, posted, sends, ended,
  \* history: the login and register requests issued, what the last
  \* login() or signup() of the context gave its caller
  authSent, authResult

formVars == <<customerName, customerEmail, transactionDate, items, taxRate, nextId>>
dashVars == <<receipts, formData, showPreview, toastMessage, isSending>>
browserVars == <<localStorage, location>>
flowVars == <<api, last, sendPc, run>>
histVars == <<clock, submitted, posted, sends, ended>>
authVars == <<user, loading, screen, error, submitting, signupData, authCall,
              authSent, authResult>>
vars == <<formVars, dashVars, browserVars, flowVars, histVars, authVars>>

\* ------------------------------------------------------------ ReceiptForm
Texts == {"", "x"}              \* values typed into a text or date input
ItemNames == {"", "w"}
Quantities == {1, 2}            \* Number(e.target.value) of the Qty input
Prices == {0, 100}              \* Number(e.target.value) of the Price input
TaxRates == {5, 10}             \* Number(e.target.value) of the Tax Rate input

BlankItem(id) == [id |-> id, name |-> "", quantity |-> 1, price |-> 0]

InitialItems == <<BlankItem(1)>>

\* items.reduce((sum, item) => sum + item.quantity * item.price, 0)
RECURSIVE reduce(_, _)
reduce(its, sum) ==
  IF its = <<>> THEN sum
  ELSE reduce(Tail(its), sum + Head(its).quantity * Head(its).price)

\* variant: the sum of the prices, whatever the quantities
subtotalOfPrices(its) ==
  LET price[i \in 0..Len(its)] == IF i = 0 THEN 0 ELSE price[i - 1] + its[i].price
  IN price[Len(its)]

subtotalOf(its) == reduce(its, 0)

\* (subtotal * taxRate) / 100: the prices and rates entered below are whole
\* numbers whose product 100 divides, so the quotient is the exact one
taxOf(sub, rate) == (sub * rate) \div 100

totalOf(sub, tx) == sub + tx

\* the values of the current render
subtotal == subtotalOf(items)
tax == taxOf(subtotal, taxRate)
total == totalOf(subtotal, tax)

\* items.filter((item) => item.id !== id)
filterOut(its, id) ==
  LET keep(item) == item.id # id IN SelectSeq(its, keep)

\* variant: the field is set on every item
mapUpdateAll(its, id, field, value) ==
  [i \in 1..Len(its) |-> [its[i] EXCEPT ![field] = value]]

\* items.map((item) => (item.id === id ? { ...item, [field]: value } : item))
mapUpdate(its, id, field, value) ==
  [i \in 1..Len(its) |->
     IF its[i].id = id THEN [its[i] EXCEPT ![field] = value] ELSE its[i]]

FieldValues(field) ==
  CASE field = "name" -> ItemNames
    [] field = "quantity" -> Quantities
    [] field = "price" -> Prices

\* the form is rendered only while no preview is shown (App 225-236)
FormMounted == ~showPreview

\* a fresh mount of ReceiptForm: every useState initial value
FormInitial ==
  [customerName |-> "", customerEmail |-> "", transactionDate |-> "",
   items |-> InitialItems, taxRate |-> DefaultTaxRate, nextId |-> InitialNextId]

setCustomerName(v) ==
  /\ FormMounted
  /\ customerName' = v
  /\ UNCHANGED <<customerEmail, transactionDate, items, taxRate, nextId>>
  /\ UNCHANGED <<dashVars, browserVars, flowVars, histVars>>
  /\ UNCHANGED authVars

setCustomerEmail(v) ==
  /\ FormMounted
  /\ customerEmail' = v
  /\ UNCHANGED <<customerName, transactionDate, items, taxRate, nextId>>
  /\ UNCHANGED <<dashVars, browserVars, flowVars, histVars>>
  /\ UNCHANGED authVars

setTransactionDate(v) ==
  /\ FormMounted
  /\ transactionDate' = v
  /\ UNCHANGED <<customerName, customerEmail, items, taxRate, nextId>>
  /\ UNCHANGED <<dashVars, browserVars, flowVars, histVars>>
  /\ UNCHANGED authVars

setTaxRate(v) ==
  /\ FormMounted
  /\ taxRate' = v
  /\ UNCHANGED <<customerName, customerEmail, transactionDate, items, nextId>>
  /\ UNCHANGED <<dashVars, browserVars, flowVars, histVars>>
  /\ UNCHANGED authVars

handleAddItem ==
  /\ FormMounted
  /\ Len(items) < MaxItems
  /\ nextId < MaxNextId + 1
  /\ items' = Append(items, BlankItem(nextId))
  /\ nextId' = nextId + 1
  /\ UNCHANGED <<customerName, customerEmail, transactionDate, taxRate>>
  /\ UNCHANGED <<dashVars, browserVars, flowVars, histVars>>
  /\ UNCHANGED authVars

\* variant: the last item can be removed too
handleRemoveItemUnguarded(id) ==
  /\ FormMounted
  /\ items' = filterOut(items, id)
  /\ UNCHANGED <<customerName, customerEmail, transactionDate, taxRate, nextId>>
  /\ UNCHANGED <<dashVars, browserVars, flowVars, histVars>>
  /\ UNCHANGED authVars

handleRemoveItem(id) ==
  /\ FormMounted
  /\ items' = IF Len(items) > 1 THEN filterOut(items, id) ELSE items
  /\ UNCHANGED <<customerName, customerEmail, transactionDate, taxRate, nextId>>
  /\ UNCHANGED <<dashVars, browserVars, flowVars, histVars>>
  /\ UNCHANGED authVars

handleUpdateItem(id, field, value) ==
  /\ FormMounted
  /\ items' = mapUpdate(items, id, field, value)
  /\ UNCHANGED <<customerName, customerEmail, transactionDate, taxRate, nextId>>
  /\ UNCHANGED <<dashVars, browserVars, flowVars, histVars>>
  /\ UNCHANGED authVars

ItemIds == {items[i].id : i \in 1..Len(items)}

\* the two validation gates of handleSubmit
CustomerDetailsMissing == customerName = "" \/ customerEmail = "" \/ transactionDate = ""

\* variant: the item gate looks at the names only
ItemDetailsMissingNameOnly == \E i \in 1..Len(items) : items[i].name = ""

ItemDetailsMissing == \E i \in 1..Len(items) : items[i].name = "" \/ items[i].price <= 0

\* the object handed to onSubmit
SubmitData ==
  [customerName |-> customerName, customerEmail |-> customerEmail,
   transactionDate |-> transactionDate, items |-> items,
   subtotal |-> subtotal, tax |-> tax, total |-> total, taxRate |-> taxRate]

\* ------------------------------------------------------------- API client
\* localStorage keys written by the client
LoggedOutStore == [access_token |-> NoneV, refresh_token |-> NoneV, user |-> NoneV]

getToken(store) == store.access_token

setItem(store, key, value) == [store EXCEPT ![key] = value]

\* variant: the refresh token is overwritten whatever is supplied
setTokensAlways(store, accessToken, refreshToken) ==
  setItem(setItem(store, "access_token", accessToken), "refresh_token", refreshToken)

\* setTokens(accessToken, refreshToken)
setTokens(store, accessToken, refreshToken) ==
  LET s1 == setItem(store, "access_token", accessToken)
  IN IF refreshToken # NoneV THEN setItem(s1, "refresh_token", refreshToken) ELSE s1

clearTokens(store) ==
  [[[store EXCEPT !["access_token"] = NoneV] EXCEPT !["refresh_token"] = NoneV]
     EXCEPT !["user"] = NoneV]

\* What the network hands back to one fetch: the promise rejects ("throw"),
\* or a response with a status and a body that parses as JSON or does not.
\* One record shape serves every endpoint; an endpoint reads its own fields.
Reply(status, json) ==
  [status |-> status, json |-> json,
   emailConfigured |-> FALSE, smsConfigured |-> FALSE,
   id |-> NoneV, emailSent |-> FALSE, smsSent |-> FALSE, success |-> FALSE,
   hasReceipts |-> FALSE, receipts |-> <<>>, access_token |-> NoneV]

NoReply == Reply("none", FALSE)
Rejected == Reply("throw", FALSE)
Failures == {Rejected, Reply("401", TRUE), Reply("err", TRUE), Reply("err", FALSE)}

NewTokens == {"a1", "a2"}       \* access tokens the refresh endpoint issues

RefreshReplies ==
  {Rejected, Reply("err", TRUE), Reply("ok", FALSE)}
    \cup {[Reply("ok", TRUE) EXCEPT !.access_token = t] : t \in NewTokens}

Procs == {"load", "send"}       \* loadReceipts on mount, handleSendReceipt

\* One apiRequest invocation: where it waits, the Authorization header it
\* holds, and what it has done so far (fetches of the request, refresh
\* calls, the status of the first reply, the refresh token it read, the
\* token the refresh returned, the reply to the retry, how it ended).
IdleCall ==
  [st |-> "idle", ep |-> NoneV, auth |-> NoneV, sent |-> 0, refreshCalls |-> 0,
   first |-> NoneV, stored |-> NoneV, newToken |-> NoneV, retried |-> NoReply,
   cleared |-> FALSE, threw |-> FALSE, msg |-> NoneV, resp |-> NoReply]

\* apiRequest up to its first await: read the token, build the headers, fetch
apiRequest(ep, store) ==
  [IdleCall EXCEPT !.st = "orig", !.ep = ep, !.auth = getToken(store), !.sent = 1]

\* variant: the refreshed token is not written to localStorage
refreshAccessTokenUnstored(store, o) ==
  [ok |-> o.status = "ok" /\ o.json, store |-> store]

\* refreshAccessToken(refreshToken) once its fetch has settled with reply o
refreshAccessToken(store, o) ==
  IF o.status = "ok" /\ o.json
  THEN [ok |-> TRUE, store |-> setItem(store, "access_token", o.access_token)]
  ELSE [ok |-> FALSE, store |-> store]

\* variant: the session ends without the stored user being removed
sessionExpiredKeepsUser(a, store) ==
  [call |-> [a EXCEPT !.st = "done", !.cleared = TRUE, !.threw = TRUE,
                      !.msg = "Session expired"],
   store |-> [store EXCEPT !.access_token = NoneV, !.refresh_token = NoneV],
   nav |-> TRUE]

\* lines 63-66: clear tokens, hard-navigate to /login, throw
sessionExpired(a, store) ==
  [call |-> [a EXCEPT !.st = "done", !.cleared = TRUE, !.threw = TRUE,
                      !.msg = "Session expired"],
   store |-> clearTokens(store), nav |-> TRUE]

\* variant: a 401 that arrives while another invocation is refreshing makes
\* no refresh call of its own and ends with the 401
firstReplyCoalesced(a, store, o) ==
  LET b == [a EXCEPT !.first = o.status]
  IN IF o.status = "401" /\ store.refresh_token # NoneV
        /\ ~\E q \in DOMAIN api : api[q].st = "refresh"
     THEN [call |-> [b EXCEPT !.st = "refresh", !.stored = store.refresh_token,
                              !.refreshCalls = b.refreshCalls + 1],
           store |-> store, nav |-> FALSE]
     ELSE [call |-> [b EXCEPT !.st = "done", !.stored = store.refresh_token,
                              !.resp = o],
           store |-> store, nav |-> FALSE]

\* lines 46-56 and 69: the reply to the original request
firstReply(a, store, o) ==
  LET b == [a EXCEPT !.first = o.status]
  IN IF o.status = "throw"
     THEN [call |-> [b EXCEPT !.st = "done", !.threw = TRUE, !.msg = "network"],
           store |-> store, nav |-> FALSE]
     ELSE IF o.status = "401"
     THEN IF store.refresh_token # NoneV
          THEN [call |-> [b EXCEPT !.st = "refresh", !.stored = store.refresh_token,
                                   !.refreshCalls = b.refreshCalls + 1],
                store |-> store, nav |-> FALSE]
          ELSE sessionExpired(b, store)
     ELSE [call |-> [b EXCEPT !.st = "done", !.resp = o], store |-> store, nav |-> FALSE]

\* variant: the retry goes out with the header of the first request
refreshReplyStaleHeader(a, store, o) ==
  LET refreshed == refreshAccessToken(store, o)
  IN IF refreshed.ok
     THEN [call |-> [a EXCEPT !.st = "retry", !.newToken = o.access_token,
                              !.sent = a.sent + 1],
           store |-> refreshed.store, nav |-> FALSE]
     ELSE sessionExpired(a, refreshed.store)

\* lines 56-60: the refresh call has settled; on success the request is sent
\* again with the token now stored
refreshReply(a, store, o) ==
  LET refreshed == refreshAccessToken(store, o)
  IN IF refreshed.ok
     THEN [call |-> [a EXCEPT !.st = "retry", !.newToken = o.access_token,
                              !.auth = getToken(refreshed.store),
                              !.sent = a.sent + 1],
           store |-> refreshed.store, nav |-> FALSE]
     ELSE sessionExpired(a, refreshed.store)

\* variant: a 401 to the retry starts another refresh
retryReplyRefreshing(a, store, o) ==
  IF o.status = "401"
  THEN [call |-> [a EXCEPT !.st = "refresh", !.refreshCalls = a.refreshCalls + 1],
        store |-> store, nav |-> FALSE]
  ELSE [call |-> [a EXCEPT !.st = "done", !.retried = o, !.resp = o,
                           !.threw = (o.status = "throw")],
        store |-> store, nav |-> FALSE]

\* line 60: the retried fetch is returned as it is, response or rejection
retryReply(a, store, o) ==
  IF o.status = "throw"
  THEN [call |-> [a EXCEPT !.st = "done", !.retried = o, !.threw = TRUE,
                           !.msg = "network"],
        store |-> store, nav |-> FALSE]
  ELSE [call |-> [a EXCEPT !.st = "done", !.retried = o, !.resp = o],
        store |-> store, nav |-> FALSE]

\* The continuation of apiRequest when the fetch it awaits settles with o.
apiOnReply(a, store, o) ==
  CASE a.st = "orig" -> firstReply(a, store, o)
    [] a.st = "refresh" -> refreshReply(a, store, o)
    [] a.st = "retry" -> retryReply(a, store, o)

Waiting(a) == a.st \in {"orig", "refresh", "retry"}

\* { ok: response.ok, data: await response.json() } around a finished call:
\* it throws when apiRequest threw or the body does not parse
wrapperThrows(a) == a.threw \/ ~a.resp.json

wrapperOk(a) == ~wrapperThrows(a) /\ a.resp.status = "ok"

\* ------------------------------------------------- auth context, routes
\* the password inputs of Signup are required: none is empty at a submit
Passwords == {"12345", "123456"}

NoSignupData == [password |-> "", confirmPassword |-> ""]

\* the authAPI call a page awaits, and whether that page is still mounted
IdleAuth == [kind |-> "idle", alive |-> FALSE]

\* the last call of the context: for login() and signup() the status of the
\* response and what the call gave its caller, for logout() its name
NoResult == [status |-> NoneV, kind |-> NoneV, error |-> NoneV]

\* What the network hands back to the fetch of authAPI.login or register.
AuthReply(status, json) ==
  [status |-> status, json |-> json, access_token |-> NoneV,
   refresh_token |-> NoneV, user |-> NoneV, error |-> NoneV]

AuthReplies ==
  {AuthReply("throw", FALSE), AuthReply("err", FALSE), AuthReply("ok", FALSE),
   AuthReply("err", TRUE), [AuthReply("err", TRUE) EXCEPT !.error = "denied"],
   [AuthReply("ok", TRUE) EXCEPT !.access_token = "b1", !.refresh_token = "s1",
                                 !.user = "v"],
   [AuthReply("ok", TRUE) EXCEPT !.access_token = "b1", !.user = "v"]}

\* authAPI.getUser()
getUser(store) == store.user

\* authAPI.isAuthenticated()
isAuthenticated(store) == getToken(store) # NoneV

\* variant: the stored user is taken without a look at the token
storedSessionUserOnly(store) == getUser(store)

\* the user the AuthProvider effect sets (lines 14-17)
storedSession(store) ==
  IF getUser(store) # NoneV /\ isAuthenticated(store) THEN getUser(store) ELSE NoneV

\* variant: the children are shown as soon as loading is over
ProtectedRouteUngated(authenticated, ld) ==
  IF ld THEN "spinner" ELSE "children"

\* ProtectedRoute, given isAuthenticated (!!user) and loading of the context
ProtectedRoute(authenticated, ld) ==
  IF ld THEN "spinner" ELSE IF ~authenticated THEN "navigate" ELSE "children"

\* <Routes>: the element shown at a location, and the location it leaves the
\* router at (<Navigate to="/login" replace />)
Routes(loc, usr, ld) ==
  CASE loc = "/login" -> [location |-> loc, screen |-> "Login"]
    [] loc = "/signup" -> [location |-> loc, screen |-> "Signup"]
    [] OTHER ->
         CASE ProtectedRoute(usr # NoneV, ld) = "spinner" ->
                [location |-> loc, screen |-> "spinner"]
           [] ProtectedRoute(usr # NoneV, ld) = "navigate" ->
                [location |-> "/login", screen |-> "Login"]
           [] OTHER -> [location |-> loc, screen |-> "Dashboard"]

\* ---------------------------------------------------------------- Dashboard
UndefinedNum == 0 - 1           \* a numeric field that is undefined

\* formData, an element of receipts, or null.  A receipt composed in the form
\* has the camelCase keys handleSubmit and handleCreateReceipt give it; a
\* receipt of the server's list has the keys the server chose, so a key of
\* the other spelling is undefined on it.
NullData ==
  [origin |-> "null", customerName |-> NoneV, customerEmail |-> NoneV,
   customerPhone |-> NoneV, customer_phone |-> NoneV, transactionDate |-> NoneV,
   items |-> <<>>, subtotal |-> UndefinedNum, tax |-> UndefinedNum,
   total |-> UndefinedNum, taxRate |-> UndefinedNum, tax_rate |-> UndefinedNum,
   receiptNumber |-> NoneV, receipt_number |-> NoneV, status |-> NoneV]

\* `REC-${Date.now()}`
receiptNumberAt(now) == "REC-" \o ToString(now)

\* the formData handleCreateReceipt(data) builds at time now
createdReceipt(data, now) ==
  [NullData EXCEPT !.origin = "form",
     !.customerName = data.customerName, !.customerEmail = data.customerEmail,
     !.transactionDate = data.transactionDate, !.items = data.items,
     !.subtotal = data.subtotal, !.tax = data.tax, !.total = data.total,
     !.taxRate = data.taxRate,
     !.receiptNumber = receiptNumberAt(now), !.status = "Not Sent"]

StoredItems == <<[id |-> 1, name |-> "w", quantity |-> 1, price |-> 100]>>

\* receipts the server lists: stored with snake_case keys (with and without
\* a phone number), and one carrying the camelCase keys the components
\* also read (ReceiptCard 6-9)
SnakeReceipt(phone) ==
  [NullData EXCEPT !.origin = "server", !.customer_phone = phone,
     !.items = StoredItems, !.subtotal = 100, !.tax = 10, !.total = 110,
     !.tax_rate = 10, !.receipt_number = "REC-0", !.status = "created"]

CamelReceipt ==
  [NullData EXCEPT !.origin = "server", !.customerName = "x", !.customerEmail = "x",
     !.customerPhone = "+1", !.transactionDate = "x",
     !.items = StoredItems, !.subtotal = 100, !.tax = 10, !.total = 110,
     !.taxRate = 10, !.receiptNumber = "REC-0", !.status = "created"]

ReceiptLists == {<<SnakeReceipt("+1"), CamelReceipt>>, <<SnakeReceipt(NoneV)>>}

ReceiptIds == {"id1", "id2"}

OkReplies(ep) ==
  CASE ep = "config" ->
         {[Reply("ok", TRUE) EXCEPT !.emailConfigured = e, !.smsConfigured = m] :
            e \in BOOLEAN, m \in BOOLEAN}
    [] ep = "create" ->
         {[Reply("ok", TRUE) EXCEPT !.id = i] : i \in ReceiptIds \cup {NoneV}}
    [] ep = "send-both" ->
         {[Reply("ok", TRUE) EXCEPT !.emailSent = e, !.smsSent = m] :
            e \in BOOLEAN, m \in BOOLEAN}
    [] ep = "send-email" ->
         {[Reply("ok", TRUE) EXCEPT !.success = b] : b \in BOOLEAN}
    [] ep = "list" ->
         {Reply("ok", TRUE)} \cup
         {[Reply("ok", TRUE) EXCEPT !.hasReceipts = TRUE, !.receipts = l] :
            l \in ReceiptLists}

\* what can come back to the fetch an invocation is waiting on
Replies(a) == IF a.st = "refresh" THEN RefreshReplies ELSE Failures \cup OkReplies(a.ep)

\* the locals and the closure of one handleSendReceipt run, how its
\* send-both call ended, and the requests it has issued through the API
\* wrappers, in order
NoRun ==
  [data |-> NullData, receiptId |-> NoneV, emailSent |-> FALSE, smsSent |-> FALSE,
   both |-> NoneV, reqs |-> <<>>]

Req(ep, id) == [ep |-> ep, id |-> id]

\* variant: the total of the request is rebuilt without the tax
receiptDataRetotalled(fd) ==
  [customer_name |-> fd.customerName, customer_email |-> fd.customerEmail,
   customer_phone |-> fd.customerPhone,
   transaction_date |-> fd.transactionDate,
   items |-> [i \in 1..Len(fd.items) |->
                [name |-> fd.items[i].name, quantity |-> fd.items[i].quantity,
                 price |-> fd.items[i].price]],
   subtotal |-> fd.subtotal, tax_rate |-> fd.taxRate, tax |-> fd.tax,
   total |-> fd.subtotal, receipt_number |-> fd.receiptNumber]

\* the HTTP method of the wrapper behind each request (part_000 194-332)
Method(ep) ==
  CASE ep \in {"list", "config"} -> "GET"
    [] ep \in {"create", "send-both", "send-email"} -> "POST"
    [] ep = "update" -> "PUT"
    [] ep = "delete" -> "DELETE"

\* receiptData built from the closure's formData (lines 113-128)
receiptData(fd) ==
  [customer_name |-> fd.customerName, customer_email |-> fd.customerEmail,
   customer_phone |-> fd.customerPhone,
   transaction_date |-> fd.transactionDate,
   items |-> [i \in 1..Len(fd.items) |->
                [name |-> fd.items[i].name, quantity |-> fd.items[i].quantity,
                 price |-> fd.items[i].price]],
   subtotal |-> fd.subtotal, tax_rate |-> fd.taxRate, tax |-> fd.tax,
   total |-> fd.total, receipt_number |-> fd.receiptNumber]

\* variant: a server with neither service configured is only warned about
checkNotificationConfigLenient(a) ==
  IF wrapperThrows(a) THEN "null"
  ELSE IF wrapperOk(a)
  THEN IF ~a.resp.emailConfigured THEN "warning" ELSE "null"
  ELSE "null"

\* checkNotificationConfig() given the finished getConfig call
checkNotificationConfig(a) ==
  IF wrapperThrows(a) THEN "null"
  ELSE IF wrapperOk(a)
  THEN IF ~a.resp.emailConfigured /\ ~a.resp.smsConfigured THEN "error"
       ELSE IF ~a.resp.emailConfigured THEN "warning"
       ELSE "null"
  ELSE "null"

\* variant: the SMS-only and e-mail-only messages are exchanged
sendBothMessageSwapped(emailSent, smsSent) ==
  IF emailSent /\ smsSent THEN "sent via email and SMS"
  ELSE IF emailSent THEN "sent via SMS (Email failed)"
  ELSE IF smsSent THEN "sent via email (SMS failed)"
  ELSE "throw"

\* sendMessage after an ok send-both (lines 159-167); "throw" is the throw
sendBothMessage(emailSent, smsSent) ==
  IF emailSent /\ smsSent THEN "sent via email and SMS"
  ELSE IF emailSent THEN "sent via email (SMS failed)"
  ELSE IF smsSent THEN "sent via SMS (Email failed)"
  ELSE "throw"

\* how a wrapper call ended for its caller
callOutcome(a) ==
  IF wrapperThrows(a) THEN "threw" ELSE IF wrapperOk(a) THEN "ok" ELSE "non-ok"

\* variant: a non-ok send-both ends the run in the catch block
sendBothBranchNoFallback(a) ==
  IF wrapperThrows(a) THEN "catch"
  ELSE IF wrapperOk(a)
  THEN IF ~a.resp.emailSent /\ ~a.resp.smsSent THEN "catch" ELSE "toast"
  ELSE "catch"

\* where the run goes after send-both (lines 155-177): the catch block, the
\* success toast or the e-mail fallback
sendBothBranch(a) ==
  IF wrapperThrows(a) THEN "catch"
  ELSE IF wrapperOk(a)
  THEN IF ~a.resp.emailSent /\ ~a.resp.smsSent THEN "catch" ELSE "toast"
  ELSE "fallback"

\* sendMessage after a send-email call (lines 171-176, 181-186)
sendEmailMessage(a) ==
  IF wrapperOk(a) /\ a.resp.success THEN "sent via email" ELSE "throw"

ErrorToast == "Error"

\* ------------------------------------------------------------------ actions
Init ==
  /\ customerName = FormInitial.customerName
  /\ customerEmail = FormInitial.customerEmail
  /\ transactionDate = FormInitial.transactionDate
  /\ items = FormInitial.items
  /\ taxRate = FormInitial.taxRate
  /\ nextId = FormInitial.nextId
  /\ receipts = <<>>
  /\ formData = NullData
  /\ showPreview = FALSE
  /\ toastMessage = ""
  /\ isSending = FALSE
  \* the keys of the signed-in user
  /\ localStorage = setItem(setTokens(LoggedOutStore, "a0", "r0"), "user", "u")
  /\ location = "/"
  \* the mount effect has called loadReceipts (lines 43-45)
  /\ api = [p \in Procs |-> IF p = "load" THEN apiRequest("list", localStorage) ELSE IdleCall]
  /\ last = [p \in Procs |-> IdleCall]
  /\ sendPc = "idle"
  /\ run = NoRun
  /\ clock = 0
  /\ submitted = <<>>
  /\ ended = <<>>
  /\ posted = <<>>
  /\ sends = 0
  \* the AuthProvider effect has found both keys, the route shows the Dashboard
  /\ user = "u"
  /\ loading = FALSE
  /\ screen = "Dashboard"
  /\ error = ""
  /\ submitting = FALSE
  /\ signupData = NoSignupData
  /\ authCall = IdleAuth
  /\ authSent = 0
  /\ authResult = NoResult

\* ReceiptForm is mounted afresh when the preview goes away
FormRemount ==
  /\ customerName' = FormInitial.customerName
  /\ customerEmail' = FormInitial.customerEmail
  /\ transactionDate' = FormInitial.transactionDate
  /\ items' = FormInitial.items
  /\ taxRate' = FormInitial.taxRate
  /\ nextId' = FormInitial.nextId

\* variant: the receipt is POSTed as soon as the form hands it over
handleCreateReceiptPosting(data, now) ==
  /\ formData' = createdReceipt(data, now)
  /\ showPreview' = TRUE
  /\ submitted' = Append(submitted, formData')
  /\ posted' = Append(posted, receiptData(formData'))
  /\ UNCHANGED <<receipts, toastMessage, isSending, browserVars, flowVars, sends, ended>>
  /\ UNCHANGED authVars

\* handleCreateReceipt(data), the onSubmit of the form, called at time now
handleCreateReceipt(data, now) ==
  /\ formData' = createdReceipt(data, now)
  /\ showPreview' = TRUE
  /\ submitted' = Append(submitted, formData')
  /\ UNCHANGED <<receipts, toastMessage, isSending, browserVars, flowVars, posted, sends,
                 ended>>
  /\ UNCHANGED authVars

\* handleSubmit of ReceiptForm, with the onSubmit it calls
handleSubmit ==
  /\ FormMounted
  /\ IF CustomerDetailsMissing \/ ItemDetailsMissing
     THEN UNCHANGED vars
     ELSE /\ clock < MaxSubmits
          /\ clock' = clock + 1
          /\ handleCreateReceipt(SubmitData, clock')
          /\ customerName' = ""
          /\ customerEmail' = ""
          /\ transactionDate' = ""
          /\ items' = InitialItems
          /\ nextId' = InitialNextId
          /\ UNCHANGED taxRate

handleViewReceipt(receipt) ==
  /\ FormMounted
  /\ formData' = receipt
  /\ showPreview' = TRUE
  /\ UNCHANGED <<formVars, receipts, toastMessage, isSending>>
  /\ UNCHANGED <<browserVars, flowVars, histVars>>
  /\ UNCHANGED authVars

handleClosePreview ==
  /\ showPreview
  /\ showPreview' = FALSE
  /\ formData' = NullData
  /\ FormRemount
  /\ UNCHANGED <<receipts, toastMessage, isSending>>
  /\ UNCHANGED <<browserVars, flowVars, histVars>>
  /\ UNCHANGED authVars

\* setTimeout(() => setToastMessage(""), 5000).  Every toast is set together
\* with a timer, so a toast on screen always has a timer pending; a timer
\* that fires on an empty toast changes nothing.
toastTimeout ==
  /\ toastMessage # ""
  /\ toastMessage' = ""
  /\ UNCHANGED <<formVars, receipts, formData, showPreview, isSending>>
  /\ UNCHANGED <<localStorage, location, flowVars, histVars>>
  /\ UNCHANGED authVars

\* variant: the Send button stays enabled while a run is in progress
handleSendReceiptReentrant ==
  /\ showPreview
  /\ formData.origin # "null"
  /\ sends < MaxSends
  /\ sends' = sends + 1
  /\ isSending' = TRUE
  /\ toastMessage' = ""
  /\ run' = [NoRun EXCEPT !.data = formData, !.reqs = <<Req("config", NoneV)>>]
  /\ api' = [api EXCEPT !["send"] = apiRequest("config", localStorage)]
  /\ sendPc' = "config"
  /\ UNCHANGED <<formVars, receipts, formData, showPreview>>
  /\ UNCHANGED <<browserVars, last, clock, submitted, posted, ended>>
  /\ UNCHANGED authVars

\* handleSendReceipt from the click on Send (disabled while isSending) to
\* the await of getConfig
handleSendReceipt ==
  /\ showPreview
  /\ ~isSending
  /\ formData.origin # "null"
  /\ sends < MaxSends
  /\ sends' = sends + 1
  /\ isSending' = TRUE
  /\ toastMessage' = ""
  /\ run' = [NoRun EXCEPT !.data = formData, !.reqs = <<Req("config", NoneV)>>]
  /\ api' = [api EXCEPT !["send"] = apiRequest("config", localStorage)]
  /\ sendPc' = "config"
  /\ UNCHANGED <<formVars, receipts, formData, showPreview>>
  /\ UNCHANGED <<browserVars, last, clock, submitted, posted, ended>>
  /\ UNCHANGED authVars

\* a reply that leaves the invocation waiting on another fetch: the refresh
\* call after a 401, or the retry after a refresh
apiContinues(p, o) ==
  /\ Waiting(api[p])
  /\ o \in Replies(api[p])
  /\ LET r == apiOnReply(api[p], localStorage, o)
     IN /\ r.call.st # "done"
        /\ api' = [api EXCEPT ![p] = r.call]
        /\ localStorage' = r.store
  /\ UNCHANGED <<formVars, dashVars, location, last, sendPc, run, histVars>>
  /\ UNCHANGED authVars

\* the invocation of flow p returns or throws on reply o
Settles(p, o) ==
  /\ Waiting(api[p])
  /\ o \in Replies(api[p])
  /\ apiOnReply(api[p], localStorage, o).call.st = "done"

\* the record kept of a finished invocation: its replies without their bodies
settledCall(a) ==
  [a EXCEPT !.resp = Reply(a.resp.status, a.resp.json),
            !.retried = Reply(a.retried.status, a.retried.json)]

\* what every settling reply does to the browser and to the call records
Settled(p, r, nextCall) ==
  /\ localStorage' = r.store
  /\ location' = IF r.nav THEN "/login" ELSE location
  /\ last' = [last EXCEPT ![p] = settledCall(r.call)]
  /\ api' = [api EXCEPT ![p] = nextCall]
  /\ UNCHANGED authVars

\* loadReceipts of the mount effect, after its getAll call (lines 47-56);
\* setReceipts of a Dashboard that is gone sets nothing
loadReceipts(o) ==
  /\ Settles("load", o)
  /\ LET r == apiOnReply(api["load"], localStorage, o)
     IN /\ Settled("load", r, IdleCall)
        /\ receipts' = IF screen = "Dashboard" /\ wrapperOk(r.call)
                            /\ r.call.resp.hasReceipts
                       THEN r.call.resp.receipts ELSE receipts
  /\ UNCHANGED <<formVars, formData, showPreview, toastMessage, isSending>>
  /\ UNCHANGED <<sendPc, run, histVars>>

\* variant: the catch block also resets the preview
sendFailsClosing(r, run2) ==
  /\ Settled("send", r, IdleCall)
  /\ toastMessage' = ErrorToast
  /\ isSending' = FALSE
  /\ sendPc' = "idle"
  /\ run' = run2
  /\ ended' = Append(ended, sendPc)
  /\ showPreview' = FALSE
  /\ formData' = NullData
  /\ UNCHANGED <<formVars, receipts>>

\* catch and finally of handleSendReceipt (lines 199-205): the error toast,
\* isSending back to false; the preview and formData stay as they are
sendFails(r, run2) ==
  /\ Settled("send", r, IdleCall)
  /\ toastMessage' = ErrorToast
  /\ isSending' = FALSE
  /\ sendPc' = "idle"
  /\ run' = run2
  /\ ended' = Append(ended, sendPc)
  /\ UNCHANGED <<formVars, receipts, formData, showPreview>>

\* the run goes on to its next request through the API wrapper; the request
\* of loadReceipts is the one a run that has sent goes on to
sendIssues(r, ep, id, pc, run2) ==
  /\ Settled("send", r, apiRequest(ep, r.store))
  /\ sendPc' = pc
  /\ run' = [run2 EXCEPT !.reqs = Append(run2.reqs, Req(ep, id))]
  /\ ended' = IF pc = "reload" THEN Append(ended, "sent") ELSE ended
  /\ UNCHANGED <<formVars, receipts, formData, showPreview, isSending>>

\* variant: the receipt is marked as sent by an update request
sendSucceedsUpdating(r, msg, run2) ==
  /\ sendIssues(r, "update", run2.receiptId, "reload", run2)
  /\ toastMessage' = msg

\* lines 189-194: the success toast, then await loadReceipts()
sendSucceeds(r, msg, run2) ==
  /\ sendIssues(r, "list", NoneV, "reload", run2)
  /\ toastMessage' = msg

\* lines 105-131: the config check settles; unless it reports an error the
\* receipt data is prepared and the create request goes out
configReply(o) ==
  /\ sendPc = "config"
  /\ Settles("send", o)
  /\ LET r == apiOnReply(api["send"], localStorage, o)
     IN IF checkNotificationConfig(r.call) = "error"
        THEN sendFails(r, run) /\ UNCHANGED <<clock, submitted, posted, sends>>
        ELSE /\ sendIssues(r, "create", NoneV, "create", run)
             /\ posted' = Append(posted, receiptData(run.data))
             /\ UNCHANGED <<toastMessage, clock, submitted, sends>>

\* the notification the run starts with, once the receipt has an id
firstNotification(data) ==
  IF receiptData(data).customer_phone # NoneV THEN "send-both" ELSE "send-email"

\* lines 131-153, 178-180: the create call settles
createReply(o) ==
  /\ sendPc = "create"
  /\ Settles("send", o)
  /\ LET r == apiOnReply(api["send"], localStorage, o)
         id == r.call.resp.id
     IN IF wrapperThrows(r.call) \/ ~wrapperOk(r.call) \/ id = NoneV
        THEN sendFails(r, run)
        ELSE /\ sendIssues(r, firstNotification(run.data), id,
                           IF firstNotification(run.data) = "send-both"
                           THEN "both" ELSE "email",
                           [run EXCEPT !.receiptId = id])
             /\ UNCHANGED toastMessage
  /\ UNCHANGED <<clock, submitted, posted, sends>>

\* lines 155-177: the send-both call settles
sendBothReply(o) ==
  /\ sendPc = "both"
  /\ Settles("send", o)
  /\ LET r == apiOnReply(api["send"], localStorage, o)
         settled == [run EXCEPT !.both = callOutcome(r.call)]
         emailSent == r.call.resp.emailSent
         smsSent == r.call.resp.smsSent
         sent == [settled EXCEPT !.emailSent = emailSent, !.smsSent = smsSent]
     IN CASE sendBothBranch(r.call) = "toast" ->
               sendSucceeds(r, sendBothMessage(emailSent, smsSent), sent)
          [] sendBothBranch(r.call) = "fallback" ->
               /\ sendIssues(r, "send-email", run.receiptId, "fallback", settled)
               /\ UNCHANGED toastMessage
          [] OTHER ->
               sendFails(r, IF wrapperThrows(r.call) THEN settled ELSE sent)
  /\ UNCHANGED <<clock, submitted, posted, sends>>

\* lines 170-176 and 180-186: a send-email call settles
sendEmailReply(o) ==
  /\ sendPc \in {"email", "fallback"}
  /\ Settles("send", o)
  /\ LET r == apiOnReply(api["send"], localStorage, o)
     IN IF wrapperThrows(r.call) \/ sendEmailMessage(r.call) = "throw"
        THEN sendFails(r, run)
        ELSE sendSucceeds(r, sendEmailMessage(r.call), [run EXCEPT !.emailSent = TRUE])
  /\ UNCHANGED <<clock, submitted, posted, sends>>

\* variant: the run ends after the reload without resetting the preview
reloadReplyKeepsPreview(o) ==
  /\ sendPc = "reload"
  /\ Settles("send", o)
  /\ LET r == apiOnReply(api["send"], localStorage, o)
     IN /\ Settled("send", r, IdleCall)
        /\ receipts' = IF wrapperOk(r.call) /\ r.call.resp.hasReceipts
                       THEN r.call.resp.receipts ELSE receipts
  /\ isSending' = FALSE
  /\ sendPc' = "idle"
  /\ UNCHANGED <<formVars, showPreview, formData, toastMessage, run, histVars>>

\* lines 194-198, 204: loadReceipts returns, the preview is reset
reloadReply(o) ==
  /\ sendPc = "reload"
  /\ Settles("send", o)
  /\ LET r == apiOnReply(api["send"], localStorage, o)
     IN /\ Settled("send", r, IdleCall)
        /\ receipts' = IF wrapperOk(r.call) /\ r.call.resp.hasReceipts
                       THEN r.call.resp.receipts ELSE receipts
  /\ showPreview' = FALSE
  /\ formData' = NullData
  /\ IF showPreview THEN FormRemount ELSE UNCHANGED formVars
  /\ isSending' = FALSE
  /\ sendPc' = "idle"
  /\ UNCHANGED <<toastMessage, run, histVars>>

\* ------------------------------------------------ auth context, actions
\* every useState initial value of Dashboard and of the form in it
DashboardFresh ==
  /\ FormRemount
  /\ receipts' = <<>>
  /\ formData' = NullData
  /\ showPreview' = FALSE
  /\ toastMessage' = ""
  /\ isSending' = FALSE

\* every useState initial value of the Login or Signup page
PageFresh ==
  /\ error' = ""
  /\ submitting' = FALSE
  /\ signupData' = NoSignupData

\* The commit that follows a change of the context or of the location: the
\* router shows the element of the route.  A Dashboard that appears runs its
\* mount effect (loadReceipts, lines 43-45) with the keys of store; one that
\* goes away takes its state with it, and the fetches it awaits go on.  A
\* page that appears starts from its initial state; the page that goes away
\* leaves the authAPI call it awaits behind.
Renders(loc, usr, ld, store) ==
  LET r == Routes(loc, usr, ld)
  IN /\ location' = r.location
     /\ screen' = r.screen
     /\ user' = usr
     /\ loading' = ld
     /\ IF r.screen = "Dashboard" /\ screen # "Dashboard"
        THEN /\ DashboardFresh
             /\ api' = [api EXCEPT !["load"] = apiRequest("list", store)]
        ELSE IF r.screen # "Dashboard" /\ screen = "Dashboard"
        THEN DashboardFresh /\ UNCHANGED api
        ELSE UNCHANGED <<formVars, dashVars, api>>

\* the useEffect of AuthProvider (lines 12-19)
authMount ==
  /\ loading
  /\ Renders(location, storedSession(localStorage), FALSE, localStorage)
  /\ UNCHANGED <<localStorage, last, sendPc, run, histVars>>
  /\ UNCHANGED <<error, submitting, signupData, authCall, authSent, authResult>>

\* the effects of the first render run before the first event is handled
Mounted == ~loading

\* <Link to="/signup"> of Login, <Link to="/login"> of Signup
followsLink(loc) ==
  /\ Mounted
  /\ screen \in {"Login", "Signup"}
  /\ loc # location
  /\ Renders(loc, user, loading, localStorage)
  /\ PageFresh
  /\ authCall' = [authCall EXCEPT !.alive = FALSE]
  /\ UNCHANGED <<localStorage, last, sendPc, run, histVars, authSent, authResult>>

\* a page calls login() or signup() of the context, which fetches
callsAuth(kind) ==
  /\ authCall.kind = "idle"
  /\ authSent < MaxAuthCalls
  /\ authSent' = authSent + 1
  /\ authCall' = [kind |-> kind, alive |-> TRUE]
  /\ submitting' = TRUE

\* handleSubmit of Login up to the await (lines 18-24); the button is
\* disabled while loading
loginHandleSubmit ==
  /\ Mounted
  /\ screen = "Login"
  /\ ~submitting
  /\ error' = ""
  /\ callsAuth("login")
  /\ UNCHANGED <<formVars, dashVars, browserVars, flowVars, histVars>>
  /\ UNCHANGED <<user, loading, screen, signupData, authResult>>

\* handleChange of Signup on one of the password inputs
signupHandleChange(name, value) ==
  /\ Mounted
  /\ screen = "Signup"
  /\ signupData' = [signupData EXCEPT ![name] = value]
  /\ UNCHANGED <<formVars, dashVars, browserVars, flowVars, histVars>>
  /\ UNCHANGED <<user, loading, screen, error, submitting, authCall, authSent, authResult>>

\* variant: the length of the password is looked at before the mismatch
signupValidationLengthFirst(data) ==
  IF Len(data.password) < MinPasswordLength
  THEN "Password must be at least 6 characters"
  ELSE IF data.password # data.confirmPassword THEN "Passwords do not match"
  ELSE ""

\* the validation of Signup (lines 33-41): the error it sets, "" when it passes
signupValidation(data) ==
  IF data.password # data.confirmPassword THEN "Passwords do not match"
  ELSE IF Len(data.password) < MinPasswordLength
  THEN "Password must be at least 6 characters"
  ELSE ""

\* handleSubmit of Signup up to the await (lines 28-51)
signupHandleSubmit ==
  /\ Mounted
  /\ screen = "Signup"
  /\ ~submitting
  /\ signupData.password # "" /\ signupData.confirmPassword # ""
  /\ IF signupValidation(signupData) # ""
     THEN /\ error' = signupValidation(signupData)
          /\ UNCHANGED <<submitting, authCall, authSent>>
     ELSE /\ error' = ""
          /\ callsAuth("register")
  /\ UNCHANGED <<formVars, dashVars, browserVars, flowVars, histVars>>
  /\ UNCHANGED <<user, loading, screen, signupData, authResult>>

\* variant: the keys are written from every response whose body parses
authStoreAnyStatus(store, o) ==
  IF o.json
  THEN setItem(setTokens(store, o.access_token, o.refresh_token), "user", o.user)
  ELSE store

\* authAPI.login / authAPI.register once response.json() has resolved
\* (part_000 112-115, 131-134)
authStore(store, o) ==
  IF o.status = "ok"
  THEN setItem(setTokens(store, o.access_token, o.refresh_token), "user", o.user)
  ELSE store

\* The fetch of authAPI.login or register settles with o: the rest of the
\* authAPI function, of login()/signup() of the context and of handleSubmit
\* of the page.  A body that does not parse makes response.json() throw,
\* through the context, into the catch of the page.  The Dashboard of an
\* earlier sign-in has no fetch left in flight when the answer comes.
authReply(kind, o) ==
  /\ authCall.kind = kind
  /\ \A p \in Procs : ~Waiting(api[p])
  /\ authCall' = IdleAuth
  /\ IF o.status = "throw" \/ ~o.json
     THEN /\ authResult' = [status |-> o.status, kind |-> "threw", error |-> NoneV]
          /\ error' = IF authCall.alive THEN "An unexpected error occurred" ELSE error
          /\ submitting' = IF authCall.alive THEN FALSE ELSE submitting
          /\ UNCHANGED <<formVars, dashVars, browserVars, api, user, loading, screen,
                         signupData>>
     ELSE IF o.status = "ok"
     THEN /\ authResult' = [status |-> o.status, kind |-> "success", error |-> NoneV]
          /\ localStorage' = authStore(localStorage, o)
          /\ Renders("/", o.user, loading, localStorage')
          /\ PageFresh
     ELSE /\ authResult' = [status |-> o.status, kind |-> "failure", error |-> o.error]
          /\ localStorage' = authStore(localStorage, o)
          /\ error' = IF ~authCall.alive THEN error
                      ELSE IF o.error # NoneV THEN o.error ELSE "failed"
          /\ submitting' = IF authCall.alive THEN FALSE ELSE submitting
          /\ UNCHANGED <<formVars, dashVars, location, api, user, loading, screen,
                         signupData>>
  /\ UNCHANGED <<last, sendPc, run, histVars, authSent>>

loginReply(o) == authReply("login", o)

signupReply(o) == authReply("register", o)

\* handleLogout of Navbar (11-14): logout() of the context, authAPI.logout,
\* navigate("/login")
handleLogout ==
  /\ screen = "Dashboard"
  /\ localStorage' = clearTokens(localStorage)
  /\ Renders("/login", NoneV, loading, localStorage')
  /\ PageFresh
  /\ authResult' = [NoResult EXCEPT !.kind = "logout"]
  /\ UNCHANGED <<last, sendPc, run, histVars, authCall, authSent>>

Endpoints == {"config", "create", "send-both", "send-email", "list"}

\* The network of the Dashboard runs: every reply body of every endpoint,
\* rejections and error statuses, from a server that accepts the token.
DashReplies ==
  {Rejected, Reply("err", TRUE), Reply("err", FALSE)}
    \cup UNION {OkReplies(ep) : ep \in Endpoints}

\* The network of the API-client runs: every status, the 401 and the replies
\* of the refresh endpoint among them, with one ok body for each endpoint.
ApiReplies ==
  Failures \cup RefreshReplies
    \cup {[Reply("ok", TRUE) EXCEPT !.emailConfigured = TRUE, !.smsConfigured = TRUE],
          [Reply("ok", TRUE) EXCEPT !.id = "id1"],
          [Reply("ok", TRUE) EXCEPT !.success = TRUE],
          [Reply("ok", TRUE) EXCEPT !.hasReceipts = TRUE,
                                    !.receipts = <<SnakeReceipt("+1"), CamelReceipt>>]}

\* the user of the form: every input of every control
NextForm ==
  \/ \E v \in Texts : setCustomerName(v)
  \/ \E v \in Texts : setCustomerEmail(v)
  \/ \E v \in Texts : setTransactionDate(v)
  \/ \E v \in TaxRates : setTaxRate(v)
  \/ handleAddItem
  \/ \E id \in ItemIds : handleRemoveItem(id)
  \/ \E id \in ItemIds, field \in {"name", "quantity", "price"} :
       \E value \in FieldValues(field) : handleUpdateItem(id, field, value)
  \/ handleSubmit
  \/ handleClosePreview

SpecForm == Init /\ [][NextForm]_vars

\* the user of the Dashboard fills the form from top to bottom, one control
\* after the other, and may change the tax rate before the first input
typesName == customerName = "" /\ setCustomerName("x")
typesEmail == customerName # "" /\ customerEmail = "" /\ setCustomerEmail("x")
typesDate == customerEmail # "" /\ transactionDate = "" /\ setTransactionDate("x")
typesItem == transactionDate # "" /\ items[1].name = "" /\ handleUpdateItem(1, "name", "w")
typesPrice == items[1].name # "" /\ items[1].price = 0 /\ handleUpdateItem(1, "price", 100)

Next ==
  \/ typesName
  \/ typesEmail
  \/ typesDate
  \/ typesItem
  \/ typesPrice
  \/ handleSubmit
  \/ \E i \in 1..Len(receipts) : handleViewReceipt(receipts[i])
  \/ handleClosePreview
  \/ toastTimeout
  \/ handleSendReceipt
  \/ \E o \in DashReplies : loadReceipts(o)
  \/ \E o \in DashReplies : configReply(o)
  \/ \E o \in DashReplies : createReply(o)
  \/ \E o \in DashReplies : sendBothReply(o)
  \/ \E o \in DashReplies : sendEmailReply(o)
  \/ \E o \in DashReplies : reloadReply(o)

Spec == Init /\ [][Next]_vars

\* every fetch of the send flow is answered or rejected in the end
SendFlowReply ==
  \E o \in DashReplies :
    \/ configReply(o)
    \/ createReply(o)
    \/ sendBothReply(o)
    \/ sendEmailReply(o)
    \/ reloadReply(o)

SpecFair == Spec /\ WF_vars(SendFlowReply)

\* The API client under the mount effect and the send flow of a receipt
\* composed in the form, over a server that may reject the token at any
\* request.
NextApi ==
  \/ typesName
  \/ typesEmail
  \/ typesDate
  \/ typesItem
  \/ typesPrice
  \/ handleSubmit
  \/ handleSendReceipt
  \/ \E p \in Procs, o \in ApiReplies : apiContinues(p, o)
  \/ \E o \in ApiReplies : loadReceipts(o)
  \/ \E o \in ApiReplies : configReply(o)
  \/ \E o \in ApiReplies : createReply(o)
  \/ \E o \in ApiReplies : sendEmailReply(o)
  \/ \E o \in ApiReplies : reloadReply(o)

SpecApi == Init /\ [][NextApi]_vars

\* The application from the load of the document: local storage as an
\* earlier document or the user left it, any of the three routes, the
\* AuthProvider before its effect.  The document that follows a hard
\* navigation starts here again, from the keys left behind.
InitialStores ==
  {[access_token |-> t, refresh_token |-> IF t = NoneV THEN NoneV ELSE "r0",
    user |-> u] : t \in {NoneV, "a0"}, u \in {NoneV, "u"}}

InitApp ==
  /\ customerName = FormInitial.customerName
  /\ customerEmail = FormInitial.customerEmail
  /\ transactionDate = FormInitial.transactionDate
  /\ items = FormInitial.items
  /\ taxRate = FormInitial.taxRate
  /\ nextId = FormInitial.nextId
  /\ receipts = <<>>
  /\ formData = NullData
  /\ showPreview = FALSE
  /\ toastMessage = ""
  /\ isSending = FALSE
  /\ localStorage \in InitialStores
  /\ location \in {"/", "/login", "/signup"}
  /\ api = [p \in Procs |-> IdleCall]
  /\ last = [p \in Procs |-> IdleCall]
  /\ sendPc = "idle"
  /\ run = NoRun
  /\ clock = 0
  /\ submitted = <<>>
  /\ ended = <<>>
  /\ posted = <<>>
  /\ sends = 0
  /\ user = NoneV
  /\ loading = TRUE
  /\ screen = Routes(location, user, loading).screen
  /\ error = ""
  /\ submitting = FALSE
  /\ signupData = NoSignupData
  /\ authCall = IdleAuth
  /\ authSent = 0
  /\ authResult = NoResult

\* signing in, up and out, with the list request of the Dashboard under a
\* server that may reject the token
NextAuth ==
  \/ authMount
  \/ \E loc \in {"/login", "/signup"} : followsLink(loc)
  \/ loginHandleSubmit
  \/ \E o \in AuthReplies : loginReply(o)
  \/ \E name \in {"password", "confirmPassword"}, value \in Passwords :
       signupHandleChange(name, value)
  \/ signupHandleSubmit
  \/ \E o \in AuthReplies : signupReply(o)
  \/ handleLogout
  \/ \E o \in ApiReplies : apiContinues("load", o)
  \/ \E o \in ApiReplies : loadReceipts(o)

SpecAuth == InitApp /\ [][NextAuth]_vars
\* ------------------------------------------------------------------ claims
\* a step in which the invocation of flow p takes a reply
Steps(p) == Waiting(api[p]) /\ api'[p] # api[p]

\* C1 (refresh, then one retry): an invocation whose first reply was a 401
\* and whose refresh call returned ok has made exactly one refresh call and
\* sent the request exactly twice, the second time with "Bearer" followed by
\* the refreshed token; what it returns is the reply to that second fetch;
\* it has cleared nothing.  The step that takes the ok refresh reply puts the
\* refreshed token in access_token and leaves the other keys alone, and the
\* step that takes the reply to the retry leaves localStorage alone.
C1Call(a) ==
  a.newToken # NoneV =>
    /\ a.first = "401"
    /\ a.refreshCalls = 1
    /\ a.sent = 2
    /\ a.auth = a.newToken
    /\ ~a.cleared
    /\ a.st \in {"retry", "done"}
    /\ a.st = "done" /\ a.retried.status # "throw" => ~a.threw /\ a.resp = a.retried

C1_RefreshThenRetryOnce ==
  /\ [](\A p \in Procs : C1Call(api[p]) /\ C1Call(last[p]))
  /\ [][\A p \in Procs :
          /\ Steps(p) /\ api[p].st = "refresh" /\ api'[p].st = "retry" =>
               /\ localStorage' = [localStorage EXCEPT !.access_token = api'[p].newToken]
               /\ api'[p].newToken \in NewTokens
               /\ location' = location
          /\ Steps(p) /\ api[p].st = "retry" =>
               /\ localStorage' = localStorage
               /\ location' = location
               /\ last'[p].newToken = api[p].newToken]_vars

C1_Witness ==
  \E p \in Procs :
    /\ last[p].newToken # NoneV
    /\ last[p].resp.status = "ok"
    /\ localStorage.access_token = last[p].newToken

\* C2 (session expiry): an invocation whose first reply was a 401 and which
\* found no refresh token, or whose refresh call did not return ok, has sent
\* the request once only and ended by throwing "Session expired"; the step
\* in which it ends removes access_token, refresh_token and user and sets
\* the location to /login.
C2Call(a) ==
  a.st = "done" /\ a.first = "401" /\ a.newToken = NoneV =>
    /\ a.cleared
    /\ a.threw
    /\ a.msg = "Session expired"
    /\ a.sent = 1
    /\ a.refreshCalls = (IF a.stored = NoneV THEN 0 ELSE 1)

C2_SessionExpired ==
  /\ [](\A p \in Procs : C2Call(last[p]) /\ (last[p].cleared => location = "/login"))
  /\ [][\A p \in Procs :
          Steps(p) /\ api[p].st \in {"orig", "refresh"}
            /\ api'[p].st \in {"idle", "orig"}
            /\ last'[p].first = "401" /\ last'[p].newToken = NoneV =>
               /\ localStorage' = LoggedOutStore
               /\ location' = "/login"
               /\ last'[p].cleared]_vars

C2_Witness ==
  /\ last["load"].cleared /\ last["load"].refreshCalls = 1
  /\ last["send"].cleared /\ last["send"].refreshCalls = 0
  /\ localStorage = LoggedOutStore

\* C3 (single shot): an invocation fetches its request at most twice and
\* calls the refresh endpoint at most once; every reply moves it one stage
\* on (request, refresh, retry, end), so the third reply at the latest ends
\* it; a 401 to the retry is returned as the result, with no further refresh.
Stage(st) == CASE st = "orig" -> 1 [] st = "refresh" -> 2 [] st = "retry" -> 3 [] OTHER -> 4

C3Call(a) ==
  /\ a.sent <= 2
  /\ a.refreshCalls <= 1
  /\ a.retried.status = "401" =>
       a.st = "done" /\ a.resp = a.retried /\ ~a.threw /\ ~a.cleared
         /\ a.refreshCalls = 1 /\ a.sent = 2

C3_SingleShot ==
  /\ [](\A p \in Procs : C3Call(api[p]) /\ C3Call(last[p]))
  /\ [][\A p \in Procs :
          Steps(p) =>
            \/ api'[p].st \in {"refresh", "retry"} /\ Stage(api'[p].st) = Stage(api[p].st) + 1
            \/ api'[p].st \in {"idle", "orig"} /\ last'[p].st = "done"]_vars

C3_Witness == \E p \in Procs : last[p].retried.status = "401"

\* C4 (no queueing behind a refresh): every invocation whose request got a
\* 401 while a refresh token was stored has made its own refresh call at
\* once, whatever the other invocation is doing.
C4Call(a) ==
  a.first = "401" /\ a.stored # NoneV => a.refreshCalls = 1 /\ a.st # "orig"

C4_EachCallsRefresh ==
  /\ [](\A p \in Procs : C4Call(api[p]) /\ C4Call(last[p]))
  /\ [][\A p \in Procs :
          Steps(p) /\ api[p].st = "orig" /\ localStorage.refresh_token # NoneV
            /\ (api'[p].first = "401" \/ (api'[p].st # "refresh" /\ last'[p].first = "401")) =>
               api'[p].st = "refresh" /\ api'[p].refreshCalls = 1]_vars

C4_Witness == api["load"].st = "refresh" /\ api["send"].st = "refresh"

\* ------------------------------------------------ sending a receipt
\* the notification requests among the requests of a run, in order
IsNotification(q) == q.ep \in {"send-both", "send-email"}
Notifications(reqs) == SelectSeq(reqs, IsNotification)

\* the receipt carries a customer phone number, under either spelling
HasPhone(d) == d.customerPhone # NoneV \/ d.customer_phone # NoneV

\* C5: whenever the receipt being sent has a customer phone number, whether
\* composed in the form or loaded from the backend and opened with
\* handleViewReceipt, the first notification request of the run is send-both;
\* when it has none, the only notification requests are send-email.
C5_PhoneMeansSendBoth ==
  LET n == Notifications(run.reqs)
  IN n # <<>> =>
       IF HasPhone(run.data) THEN n[1].ep = "send-both"
       ELSE \A i \in 1..Len(n) : n[i].ep = "send-email"

ToastsFor(emailSent, smsSent) ==
  IF emailSent /\ smsSent THEN {"sent via email and SMS"}
  ELSE IF emailSent THEN {"sent via email", "sent via email (SMS failed)"}
  ELSE IF smsSent THEN {"sent via SMS (Email failed)"}
  ELSE {ErrorToast}

RunEnds == sendPc \notin {"idle", "reload"} /\ sendPc' \in {"idle", "reload"}

\* C7: the toast shown at the end of handleSendReceipt depends exactly on the
\* channels that succeeded: the message naming email and SMS when both were
\* reported sent, a message naming only email when only email was sent, the
\* message naming only SMS when only SMS was sent, the error message when
\* neither was sent; and no other toast is ever on screen.
C7_ToastMatchesChannels ==
  /\ [](toastMessage # "" => toastMessage \in ToastsFor(run.emailSent, run.smsSent))
  /\ [][RunEnds => toastMessage' \in ToastsFor(run'.emailSent, run'.smsSent)]_vars

C7_Witness ==
  /\ toastMessage = "sent via SMS (Email failed)"
  /\ run.smsSent /\ ~run.emailSent
  /\ sendPc = "reload"

\* the last finished run created its receipt and failed at a notification
FailedAtNotification ==
  /\ sendPc = "idle"
  /\ ended # <<>>
  /\ ended[Len(ended)] \in {"both", "email", "fallback"}

\* C8: there is no idempotency guard: a run that created the receipt and
\* fails at the notification step leaves the preview and its receipt as they
\* are and the Send button usable; a further handleSendReceipt on that
\* preview is possible, and every run that passes the config check issues a
\* create request with the receipt's data, already POSTed or not, and every
\* create that succeeds is followed by a notification request.
C8_NoIdempotencyGuard ==
  /\ [](FailedAtNotification /\ showPreview /\ formData = run.data /\ sends < MaxSends
          => ENABLED handleSendReceipt)
  /\ [][RunEnds /\ sendPc' = "idle" =>
          showPreview' = showPreview /\ formData' = formData /\ ~isSending']_vars
  /\ [][sendPc = "config" /\ sendPc' = "create" =>
          posted' = Append(posted, receiptData(run.data))]_vars
  /\ [][sendPc = "create" /\ sendPc' \notin {"create", "idle"} =>
          /\ sendPc' \in {"both", "email"}
          /\ Len(Notifications(run'.reqs)) = 1]_vars

\* a second run on the receipt of a run that failed at the notification has
\* issued its own create, with the same receipt_number, and its notification
C8_Witness ==
  /\ Len(ended) = 1 /\ ended[1] \in {"both", "email", "fallback"}
  /\ Len(posted) = 2
  /\ posted[1].receipt_number = posted[2].receipt_number
  /\ posted[1].receipt_number = receiptNumberAt(1)
  /\ sendPc \in {"both", "email"}
  /\ showPreview /\ formData = run.data

\* C9 as stated: a POST /receipts request has been issued for every receipt
\* a validated submit of the form handed over.
C9_CreatedOnSubmit ==
  \A i \in 1..Len(submitted) :
    \E j \in 1..Len(posted) : posted[j].receipt_number = submitted[i].receiptNumber

\* C9: a validated submit issues no request: it opens the preview on the
\* receipt; the POST /receipts request is issued only by a handleSendReceipt
\* run, once its config check has passed, for the receipt in the preview.
C9_CreatedOnSend ==
  /\ [](Len(posted) <= sends)
  /\ [][Len(submitted') > Len(submitted) =>
          /\ posted' = posted /\ api' = api
          /\ showPreview' /\ formData' = submitted'[Len(submitted')]]_vars
  /\ [][posted' # posted =>
          /\ sendPc = "config" /\ sendPc' = "create"
          /\ posted' = Append(posted, receiptData(run.data))]_vars

\* a submitted receipt has been sent from its preview and so POSTed
C9_Witness ==
  /\ submitted # <<>> /\ posted # <<>>
  /\ posted[1].receipt_number = submitted[1].receiptNumber
  /\ posted[1].total = submitted[1].total

\* ------------------------------------------------------------- amounts
\* the sum of quantity x price over the first n items
RECURSIVE SumOver(_, _)
SumOver(its, n) ==
  IF n = 0 THEN 0 ELSE SumOver(its, n - 1) + its[n].quantity * its[n].price

AmountsAgree(its, rate, sub, tx, tot) ==
  /\ sub = SumOver(its, Len(its))
  /\ tx * 100 = sub * rate
  /\ tot = sub + tx

\* C10: in every state of ReceiptForm and in the data passed to onSubmit,
\* subtotal is the sum of quantity x price over the items, tax is
\* subtotal x taxRate / 100, and total is subtotal + tax.
C10_Amounts ==
  /\ AmountsAgree(items, taxRate, subtotal, tax, total)
  /\ \A i \in 1..Len(submitted) :
       AmountsAgree(submitted[i].items, submitted[i].taxRate,
                    submitted[i].subtotal, submitted[i].tax, submitted[i].total)

\* two items, one of quantity 2, submitted at the 5 % rate
C10_Witness ==
  /\ submitted # <<>>
  /\ Len(submitted[1].items) = 2
  /\ submitted[1].subtotal = 300
  /\ submitted[1].tax = 15
  /\ submitted[1].total = 315

\* ------------------------------------------- amounts on their way out
\* the create request b carries the amounts and the number of the receipt d
SentAsIs(b, d) ==
  /\ b.subtotal = d.subtotal
  /\ b.tax_rate = d.taxRate
  /\ b.tax = d.tax
  /\ b.total = d.total
  /\ b.receipt_number = d.receiptNumber

\* C11: the subtotal, tax_rate, tax and total of a create request equal the
\* subtotal, taxRate, tax and total ReceiptForm passed to onSubmit for that
\* receipt, and its receipt_number is the one handleCreateReceipt assigned:
\* the submit stores the form's values and the number of that instant, the
\* preview holds them unaltered, and the request carries them.
C11_AmountsSentAsIs ==
  /\ [](\A j \in 1..Len(posted) : \A i \in 1..Len(submitted) :
          posted[j].receipt_number = submitted[i].receiptNumber
            => SentAsIs(posted[j], submitted[i]))
  /\ [](formData.origin = "form" => formData = submitted[Len(submitted)])
  /\ [][Len(submitted') > Len(submitted) =>
          /\ formData'.subtotal = subtotal /\ formData'.taxRate = taxRate
          /\ formData'.tax = tax /\ formData'.total = total
          /\ formData'.receiptNumber = receiptNumberAt(clock')
          /\ submitted'[Len(submitted')] = formData']_vars
  /\ [][posted' # posted => SentAsIs(posted'[Len(posted')], run.data)]_vars

\* the create request of a receipt composed in the form: 100 + 10 % tax
C11_Witness ==
  /\ sendPc = "create"
  /\ run.data.origin = "form"
  /\ posted[Len(posted)].receipt_number = receiptNumberAt(1)
  /\ posted[Len(posted)].subtotal = 100
  /\ posted[Len(posted)].tax_rate = DefaultTaxRate
  /\ posted[Len(posted)].tax = 10
  /\ posted[Len(posted)].total = 110

\* ------------------------------------------------------- auth context
\* C12: the Dashboard is rendered only while loading is false and the
\* context user is non-null; at "/" a spinner is rendered while loading is
\* true; and a step that leaves loading false and the user null at "/"
\* ends at /login on the Login page, so that with loading false and a null
\* user the location is never "/".
C12_RoutesGated ==
  /\ [](screen = "Dashboard" => ~loading /\ user # NoneV)
  /\ [](loading /\ location = "/" => screen = "spinner")
  /\ [](screen = "spinner" => loading)
  /\ [](~loading /\ user = NoneV => location # "/" /\ screen \in {"Login", "Signup"})
  /\ [][location = "/" /\ ~loading' /\ user' = NoneV =>
          location' = "/login" /\ screen' = "Login"]_vars

\* the Dashboard on screen for the user a login has just set
C12_Witness ==
  /\ screen = "Dashboard"
  /\ location = "/"
  /\ user = "v"
  /\ authResult.kind = "success"

\* C13: the AuthProvider effect sets the context user to the stored user
\* if and only if local storage holds both a 'user' and an 'access_token'
\* entry, otherwise the user stays null; until then the user is null, the
\* effect is there to run, and it sets loading to false in both cases.
C13_UserBackedByTokens ==
  /\ [](loading => user = NoneV /\ ENABLED authMount)
  /\ [][loading =>
          /\ ~loading'
          /\ user' = IF localStorage.user # NoneV /\ localStorage.access_token # NoneV
                     THEN localStorage.user ELSE NoneV]_vars

\* a stored user without an access token: the effect has left the user null
C13_Witness ==
  /\ ~loading
  /\ user = NoneV
  /\ localStorage.user = "u"
  /\ localStorage.access_token = NoneV
  /\ authSent = 0

\* C14: every request apiRequest sends, the first one of an invocation and
\* the retry after a refresh, carries as its Authorization header the
\* access_token stored at that moment, and no header when none is stored.
C14_BearerStoredToken ==
  [][\A p \in Procs :
       api'[p] # api[p] /\ api'[p].st \in {"orig", "retry"} =>
         api'[p].auth = localStorage'.access_token]_vars

\* a request of the send flow that went out without a header, after the list
\* request had ended the session
C14_Witness ==
  /\ last["load"].cleared
  /\ api["send"].st = "orig"
  /\ api["send"].auth = NoneV
  /\ localStorage.access_token = NoneV

\* a response to login or register arrives
AuthSettles == authCall.kind # "idle" /\ authCall'.kind = "idle"

KeysWritten ==
  /\ localStorage'.access_token = "b1"
  /\ localStorage'.user = "v"

\* C15 as stated: login and register write the keys if and only if the
\* response is ok; on a non-ok response local storage and the context user
\* are unchanged, the context call returns success=false with the server's
\* error, and the page does not navigate.
C15_WritesIffOk ==
  [][AuthSettles =>
       /\ authResult'.status = "ok" <=> localStorage' # localStorage
       /\ authResult'.status = "ok" => KeysWritten
       /\ authResult'.status = "err" =>
            /\ localStorage' = localStorage /\ user' = user
            /\ authResult'.kind = "failure"
            /\ location' = location /\ screen' = screen]_vars

\* C15: login and register write access_token and user (and refresh_token
\* when the response carries one) if and only if the response is ok and its
\* body parses as JSON; the context user is then set and the page navigates
\* to "/".  On a non-ok response with a JSON body local storage and the
\* context user are unchanged, the context call returns success=false with
\* the server's error and the page does not navigate.  When the body does
\* not parse (or the fetch rejects) the context call throws: nothing is
\* stored, the user is unchanged and the page does not navigate.
C15_WritesIffOkJson ==
  [][AuthSettles =>
       /\ authResult'.kind = "success" <=> localStorage' # localStorage
       /\ authResult'.kind = "success" =>
            /\ authResult'.status = "ok"
            /\ KeysWritten
            /\ localStorage'.refresh_token \in {"s1", localStorage.refresh_token}
            /\ user' = "v" /\ location' = "/" /\ screen' = "Dashboard"
       /\ authResult'.kind # "success" =>
            /\ localStorage' = localStorage /\ user' = user
            /\ location' = location /\ screen' = screen
       /\ authResult'.kind = "failure" =>
            /\ authResult'.status = "err"
            /\ authCall.alive =>
                 error' = IF authResult'.error # NoneV THEN authResult'.error
                          ELSE "failed"
       /\ authResult'.kind = "threw" /\ authCall.alive =>
            error' = "An unexpected error occurred"]_vars

\* a login refused with the server's error, shown on the Login page
C15_Witness ==
  /\ authResult = [status |-> "err", kind |-> "failure", error |-> "denied"]
  /\ screen = "Login"
  /\ error = "denied"
  /\ user = NoneV
  /\ localStorage = LoggedOutStore

\* C17: a successful refresh changes only the stored access_token: the
\* refresh_token and the user are the same before and after; and setTokens,
\* at a successful login or register, overwrites the stored refresh_token
\* only with a refresh token the response supplies.
C17_RefreshTouchesAccessTokenOnly ==
  /\ [][\A p \in Procs :
          api[p].st = "refresh" /\ api'[p].st = "retry" =>
            localStorage' = [localStorage EXCEPT !.access_token = api'[p].newToken]]_vars
  /\ [][AuthSettles /\ authResult'.kind = "success" =>
          localStorage'.refresh_token \in {"s1", localStorage.refresh_token}]_vars
  /\ [](\A t \in {NoneV, "s1"} :
          setTokens(localStorage, "b1", t).refresh_token
            = IF t = NoneV THEN localStorage.refresh_token ELSE t)

\* signed in by a response without a refresh token, then refreshed: the
\* refresh token of the earlier session and the user are still the stored ones
C17_Witness ==
  /\ api["load"].st = "retry"
  /\ localStorage = [access_token |-> api["load"].newToken, refresh_token |-> "r0",
                     user |-> "v"]

\* C16: after logout the keys access_token, refresh_token and user are
\* absent from local storage and the context user is null, and the router
\* is at a public page, for as long as logout is the last call of the
\* context.
C16_LoggedOutStaysClean ==
  authResult.kind = "logout" =>
    /\ localStorage = LoggedOutStore
    /\ user = NoneV
    /\ location # "/"
    /\ screen \in {"Login", "Signup"}

\* the requests in flight and the requests of the last send run
RequestsSeen ==
  {api[p].ep : p \in Procs} \cup {last[p].ep : p \in Procs}
    \cup {run.reqs[i].ep : i \in 1..Len(run.reqs)}

\* C18: no flow of the Dashboard issues an update (PUT) or a delete (DELETE)
\* request; the write requests it issues are the create request and the
\* notification sends.
C18_NoUpdateNoDelete ==
  \A ep \in RequestsSeen \ {NoneV} :
    /\ Method(ep) \notin {"PUT", "DELETE"}
    /\ Method(ep) # "GET" => ep \in {"create", "send-both", "send-email"}

\* a run that has created, notified by both calls and gone on to reload
C18_Witness ==
  /\ sendPc = "reload"
  /\ api["send"].ep = "list"
  /\ {run.reqs[i].ep : i \in 1..Len(run.reqs)}
       = {"config", "create", "send-both", "send-email", "list"}

Mismatch == "Passwords do not match"
TooShort == "Password must be at least 6 characters"

\* C19: Signup sends a register request only when password equals
\* confirmPassword and the password has at least 6 characters; otherwise the
\* submit shows an error, sends nothing and leaves the auth state as it is,
\* and a mismatch is reported before a too-short password.
C19_SignupValidation ==
  /\ [][authCall'.kind = "register" /\ authCall.kind = "idle" =>
          /\ signupData.password = signupData.confirmPassword
          /\ Len(signupData.password) >= MinPasswordLength]_vars
  /\ [][error' \in {Mismatch, TooShort} /\ error' # error =>
          /\ error' = Mismatch <=> signupData.password # signupData.confirmPassword
          /\ error' = TooShort => Len(signupData.password) < MinPasswordLength
          /\ authSent' = authSent /\ authCall' = authCall
          /\ localStorage' = localStorage /\ user' = user
          /\ location' = location /\ screen' = screen]_vars
  /\ [](/\ screen = "Signup" /\ Mounted /\ ~submitting
        /\ signupData.password # "" /\ signupData.confirmPassword # ""
        /\ (\/ signupData.password # signupData.confirmPassword
            \/ Len(signupData.password) < MinPasswordLength)
        => ENABLED (signupHandleSubmit /\ error' \in {Mismatch, TooShort}))

\* a password that is too short and differs from its confirmation: the
\* mismatch is the error on screen, and nothing has been sent
C19_Witness ==
  /\ screen = "Signup"
  /\ error = Mismatch
  /\ Len(signupData.password) < MinPasswordLength
  /\ signupData.password # signupData.confirmPassword
  /\ authSent = 0

\* C20: once an apiRequest invocation has wiped the session (clearTokens
\* after a failed refresh), local storage holds no access_token, whatever
\* the other invocations in flight do afterwards.
C20_NoTokenAfterWipe ==
  (\E p \in Procs : last[p].cleared) => localStorage.access_token = NoneV

\* the requests of the running send flow are config, create and then
\* notifications that carry the id the run took from the create response
OrderedRequests ==
  \A i \in 1..Len(run.reqs) :
    /\ i = 1 <=> run.reqs[i].ep = "config"
    /\ i = 2 => run.reqs[i].ep = "create"
    /\ IsNotification(run.reqs[i]) =>
         /\ i >= 3
         /\ run.receiptId \in ReceiptIds
         /\ run.reqs[i].id = run.receiptId

\* what the caller of the wrapper gets when reply o settles the send flow's
\* call
SendCallOn(o) == apiOnReply(api["send"], localStorage, o).call

\* C21: handleSendReceipt issues config check, then create, then
\* notification: a notification request is issued only after the create
\* call returned ok with a receipt id and carries that id; no create request
\* is issued when the config check reports that neither e-mail nor SMS is
\* configured; a config check that throws or is non-ok is followed by the
\* create request.
C21_ConfigCreateNotify ==
  /\ []OrderedRequests
  /\ [][\A o \in DashReplies : configReply(o) =>
          LET a == SendCallOn(o)
          IN /\ wrapperOk(a) /\ ~a.resp.emailConfigured /\ ~a.resp.smsConfigured =>
                  /\ sendPc' = "idle"
                  /\ run'.reqs = run.reqs
                  /\ posted' = posted
                  /\ api'["send"] = IdleCall
             /\ ~wrapperOk(a) =>
                  /\ sendPc' = "create"
                  /\ run'.reqs = Append(run.reqs, Req("create", NoneV))
                  /\ api'["send"].ep = "create"]_vars
  /\ [][\A o \in DashReplies : createReply(o) =>
          LET a == SendCallOn(o)
          IN IF wrapperOk(a) /\ a.resp.id # NoneV
             THEN /\ Len(run'.reqs) = Len(run.reqs) + 1
                  /\ IsNotification(run'.reqs[Len(run'.reqs)])
                  /\ run'.reqs[Len(run'.reqs)].id = a.resp.id
                  /\ api'["send"].ep = run'.reqs[Len(run'.reqs)].ep
             ELSE /\ run'.reqs = run.reqs
                  /\ api'["send"] = IdleCall
                  /\ sendPc' = "idle"]_vars

\* a first run was stopped by a config check reporting that nothing is
\* configured, a second one went on past a failed config check and a create
\* call that returned id2, and waits on its notification
C21_Witness ==
  /\ ended = <<"config">>
  /\ Len(posted) = 1
  /\ sendPc \in {"both", "email"}
  /\ Len(run.reqs) = 3
  /\ run.reqs[3].id = "id2"
  /\ api["send"].ep \in {"send-both", "send-email"}

\* a step that ends the running send flow in its catch block
RunFails == sendPc \notin {"idle", "reload"} /\ sendPc' = "idle"

\* the step that ends a send flow that has sent: loadReceipts has returned
RunSent == sendPc = "reload" /\ sendPc' = "idle"

\* C22: handleSendReceipt closes the preview and clears formData if and
\* only if a notification was sent successfully; on every error path
\* showPreview and formData are unchanged, the receipt list is not reloaded
\* and an error toast is shown.
C22_ResetIffSent ==
  /\ [][RunFails =>
          /\ showPreview' = showPreview /\ formData' = formData
          /\ receipts' = receipts
          /\ \A i \in 1..Len(run'.reqs) : run'.reqs[i].ep # "list"
          /\ api'["send"] = IdleCall
          /\ toastMessage' = ErrorToast]_vars
  /\ [][RunSent => ~showPreview' /\ formData' = NullData]_vars
  /\ [][sendPc' # sendPc /\ ~RunSent =>
          showPreview' = showPreview /\ formData' = formData]_vars
  /\ [][\A o \in DashReplies :
          /\ sendEmailReply(o) =>
               (sendPc' = "reload" <=>
                  wrapperOk(SendCallOn(o)) /\ SendCallOn(o).resp.success)
          /\ sendBothReply(o) =>
               (sendPc' = "reload" <=>
                  /\ wrapperOk(SendCallOn(o))
                  /\ SendCallOn(o).resp.emailSent \/ SendCallOn(o).resp.smsSent)
          /\ configReply(o) \/ createReply(o) => sendPc' # "reload"]_vars

\* a run that sent has closed its preview; a later run on a receipt of the
\* list failed at its create call and left the preview open under the
\* error toast
C22_Witness ==
  /\ ended = <<"sent", "create">>
  /\ sendPc = "idle"
  /\ showPreview
  /\ formData = run.data
  /\ formData.origin = "server"
  /\ toastMessage = ErrorToast
  /\ ~isSending

C24_CompletionKeepsNewerPreview ==
  [][/\ sendPc # "idle" /\ sendPc' = "idle"
     /\ showPreview /\ formData # run.data
     => showPreview' /\ formData' = formData]_vars

\* the form as the claim reads it: all three customer details are there and
\* every item has a name and a price above 0
FormComplete ==
  /\ customerName # "" /\ customerEmail # "" /\ transactionDate # ""
  /\ \A i \in 1..Len(items) : items[i].name # "" /\ items[i].price > 0

\* C25: ReceiptForm calls onSubmit only when customer name, customer email
\* and transaction date are non-empty and every item has a non-empty name
\* and a price greater than 0; a submit that fails this calls nothing and
\* leaves the form state (fields, items, nextId, taxRate) unchanged.
C25_SubmitGate ==
  /\ [][submitted' # submitted =>
          /\ FormComplete
          /\ submitted' = Append(submitted, createdReceipt(SubmitData, clock'))]_vars
  /\ [](FormMounted /\ ~FormComplete =>
          /\ ENABLED handleSubmit
          /\ ~ENABLED (handleSubmit /\ <<formVars, dashVars, histVars>>'
                                         # <<formVars, dashVars, histVars>>))
  /\ [](FormMounted /\ FormComplete /\ clock < MaxSubmits =>
          ENABLED (handleSubmit /\ Len(submitted') = Len(submitted) + 1))

\* one receipt of two complete items has been accepted; the form, opened
\* again, is filled in except for the price of its item, which is 0
C25_Witness ==
  /\ Len(submitted) = 1
  /\ Len(submitted[1].items) = 2
  /\ FormMounted
  /\ customerName # "" /\ customerEmail # "" /\ transactionDate # ""
  /\ items[1].name # "" /\ items[1].price = 0

\* C26: in every reachable state of ReceiptForm the items list has at least
\* one item and the ids of its items are pairwise distinct; removing an item
\* when only one is left changes nothing.
C26_ItemsKept ==
  /\ [](Len(items) >= 1)
  /\ [](\A i, j \in 1..Len(items) : items[i].id = items[j].id => i = j)
  /\ [](\A i \in 1..Len(items) : items[i].id < nextId)
  /\ [](FormMounted /\ Len(items) = 1 =>
          \A id \in ItemIds :
            /\ ENABLED handleRemoveItem(id)
            /\ ~ENABLED (handleRemoveItem(id) /\ vars' # vars))

\* the first item was removed after a second was added, and a third was
\* added after that: the ids on the form are 2 and 3
C26_Witness ==
  /\ Len(items) = 2
  /\ items[1].id = 2
  /\ items[2].id = 3
  /\ nextId = 4

ItemFields == {"id", "name", "quantity", "price"}

====
